---- MODULE Spec2Model ----
(***************************************************************************)
(* Heimer: the workflow between Application (the driver), StateMachine     *)
(* and Mediator.  Application::runState executes the effect of the state   *)
(* the StateMachine announced with stateChanged(); the effect may emit     *)
(* actionTriggered(), which is connected to StateMachine::calculateState.  *)
(* Signals are direct connections: an emit inside runState runs            *)
(* calculateState before runState returns, and the runState of the new     *)
(* state is the next step of the model.                                    *)
(***************************************************************************)
EXTENDS Integers, Sequences, FiniteSets, TLC

\* Bounds of the model.
MaxNodes == 2
MaxUndo == 2
MaxArgs == 3

\* ------------------------------------------------------------------------
\* Data model
\* ------------------------------------------------------------------------

States ==
    {"Edit", "InitializeNewMindMap", "SaveMindMap", "ShowOpenDialog",
     "ShowSaveAsDialog", "ShowBackgroundColorDialog", "ShowExportToPNGDialog",
     "ShowNotSavedDialog", "TryCloseWindow", "Exit"}

RequestActions ==
    {"RequestOpen", "RequestSave", "RequestSaveAs", "RequestExport",
     "RequestBackgroundColor", "RequestClose", "RequestNew"}

ResultActions ==
    {"NewMindMap", "MindMapOpened", "MindMapSaved", "MindMapSaveFailed",
     "MindMapSavedAs", "MindMapSaveAsFailed", "BackgroundColorChanged",
     "ExportedToPNG", "NotSavedDialogAccepted", "NotSavedDialogDiscarded",
     "NotSavedDialogCanceled"}

Actions == RequestActions \cup ResultActions

PendingOps == {"none", "new", "open", "close"}

DialogStates ==
    {"ShowOpenDialog", "ShowSaveAsDialog", "ShowNotSavedDialog",
     "ShowBackgroundColorDialog", "ShowExportToPNGDialog"}

\* A file name is a base name with or without the file extension; the empty
\* QString (QString::isEmpty) has the empty base.
FileNames == [base : {"map"}, ext : BOOLEAN]
NoFile == [base |-> "", ext |-> FALSE]
isEmpty(f) == f.base = ""
\* The command lines the application is started with: no file, or one.
StartupFiles == {NoFile, [base |-> "map", ext |-> TRUE]}
endsWithExtension(f) == f.ext
appendExtension(f) == [f EXCEPT !.ext = TRUE]

\* The command line: argv[0] and up to MaxArgs arguments.
ArgTokens == {"-h", "--help", "--lang", "fi", "map.alz"}
ArgLists ==
    UNION {{<<"heimer">> \o a : a \in [1..n -> ArgTokens]} : n \in 0..MaxArgs}
\* The QString of an argument as a file name.
ArgFile(arg) ==
    IF arg = "map.alz"
    THEN [base |-> "map", ext |-> TRUE]
    ELSE [base |-> arg, ext |-> FALSE]

NodeIds == 0..(MaxNodes - 1)
Colors == {"white", "other"}
EmptyGraph == [nodes |-> {}, edges |-> {}]
\* Mind maps the external loader can produce from a readable file.
LoadableMaps ==
    {[graph |-> EmptyGraph, color |-> "white"],
     [graph |-> [nodes |-> {0}, edges |-> {}], color |-> "other"]}

VARIABLES
    state,        \* StateMachine: current State
    pending,      \* StateMachine: operation waiting behind ShowNotSavedDialog
    pc,           \* "idle": event loop waits; "run": runState(state) is due; "exited"
    mindMapFile,  \* Application::m_mindMapFile
    timerPending, \* the QTimer::singleShot(0, openArgMindMap) has not fired yet
    graph,        \* Document: nodes and edges
    filePath,     \* Document: file path (NoFile when unset)
    isModified,   \* Document: modified flag
    undoStack,    \* UndoEngine: undo stack, newest last
    redoStack,    \* UndoEngine: redo stack, newest last
    backgroundColor, \* background colour of the mind map
    selectedNode, \* Mediator: id of the selected node, -1 when there is none
    ran,          \* history: the state whose effect the last step ran, or "None"
    outcome,      \* history: how that effect ended
    submitted,    \* history: the Action the last step submitted, or "None"
    trail,        \* history: states entered since the last request, with cause
    calls,        \* history: Mediator calls since the last request
    resumption,   \* history: the last evaluation of a resuming table entry
                  \* since the Document was edited
    editHist,     \* history: the Mediator editing call of the last step and the
                  \* reference states of an edit; undo; redo sequence
    args,         \* parseArgs: the vector args (argv[0] first)
    argi,         \* parseArgs: the loop index i
    lang,         \* parseArgs: the language handed to initTranslations
    parsePc       \* parseArgs: "loop", "help" (UserException thrown) or "done"

doc == <<graph, filePath, isModified, undoStack, redoStack>>
machine == <<state, pending>>
parser == <<args, argi, lang, parsePc>>
vars == <<state, pending, pc, mindMapFile, timerPending, graph, filePath,
          isModified, undoStack, redoStack, backgroundColor, selectedNode,
          ran, outcome, submitted, trail, calls, resumption, editHist,
          args, argi, lang, parsePc>>

\* ------------------------------------------------------------------------
\* StateMachine (transition function)
\* ------------------------------------------------------------------------

guards == [isModified |-> isModified,
           hasNodes |-> graph.nodes # {},
           hasPendingFile |-> timerPending]

Resume(p) ==
    CASE p = "new" -> "InitializeNewMindMap"
      [] p = "open" -> "ShowOpenDialog"
      [] p = "close" -> "TryCloseWindow"
      [] OTHER -> "Edit"

calculateState(s, a, g, p) ==
    CASE s = "Exit" -> "Exit"
      [] a = "RequestNew" ->
            IF g.isModified THEN "ShowNotSavedDialog" ELSE "InitializeNewMindMap"
      [] a = "RequestOpen" ->
            IF g.isModified THEN "ShowNotSavedDialog" ELSE "ShowOpenDialog"
      [] a = "RequestClose" ->
            IF g.isModified THEN "ShowNotSavedDialog" ELSE "TryCloseWindow"
      [] a = "NotSavedDialogAccepted" -> "SaveMindMap"
      [] a = "NotSavedDialogDiscarded" -> Resume(p)
      [] a = "NotSavedDialogCanceled" -> "Edit"
      [] a \in {"MindMapSaved", "MindMapSavedAs"} -> Resume(p)
      [] a \in {"MindMapOpened", "BackgroundColorChanged", "ExportedToPNG"} -> "Edit"
      [] a \in {"MindMapSaveFailed", "MindMapSaveAsFailed"} -> "Edit"
      [] a = "RequestExport" -> "ShowExportToPNGDialog"
      [] a = "RequestBackgroundColor" -> "ShowBackgroundColorDialog"
      [] a = "RequestSave" -> "SaveMindMap"
      [] a = "RequestSaveAs" -> "ShowSaveAsDialog"
      [] OTHER -> "Edit"

\* The actions whose table entry resumes the pending operation.
ResumingActions == {"NotSavedDialogDiscarded"}

OpOf(a) ==
    CASE a = "RequestNew" -> "new"
      [] a = "RequestOpen" -> "open"
      [] a = "RequestClose" -> "close"
      [] OTHER -> "none"

\* The pending-operation slot: written on entry to ShowNotSavedDialog, kept
\* while the save chosen in the dialog runs, cleared by everything else.
pendingOperation(s, a, g, p) ==
    CASE s = "Exit" -> p
      [] a \in {"RequestNew", "RequestOpen", "RequestClose"} ->
            IF g.isModified THEN OpOf(a) ELSE "none"
      [] a = "NotSavedDialogAccepted" -> p
      [] OTHER -> "none"

\* ------------------------------------------------------------------------
\* Wiring of Application::Application: actionTriggered -> calculateState,
\* stateChanged -> runState.
\* ------------------------------------------------------------------------

\* Mutant: the actionTriggered signals are not connected to calculateState.
actionTriggeredUnconnected(a) ==
    /\ UNCHANGED <<state, pending, trail, resumption>>
    /\ pc' = "idle"
    /\ submitted' = a

\* history: the step that enters state' on action a.
Entry(a) == [from |-> state, by |-> a, st |-> state', how |-> outcome']

\* history: the evaluation of the transition function made for action a.
Evaluation(a) == [s |-> state, a |-> a, g |-> guards', p |-> pending, next |-> state']
NoEvaluation ==
    [s |-> "None", a |-> "None", p |-> "none", next |-> "None",
     g |-> [isModified |-> FALSE, hasNodes |-> FALSE, hasPendingFile |-> FALSE]]

actionTriggered(a) ==
    /\ state' = calculateState(state, a, guards', pending)
    /\ pending' = pendingOperation(state, a, guards', pending)
    /\ pc' = "run"
    /\ submitted' = a
    /\ trail' = IF a \in RequestActions
                THEN <<Entry(a)>>
                ELSE Append(trail, Entry(a))
    /\ resumption' = IF a \in ResumingActions THEN Evaluation(a) ELSE resumption

\* An effect that returns without emitting: the machine keeps its state and
\* control goes back to the event loop.
noAction ==
    /\ UNCHANGED machine
    /\ pc' = "idle"
    /\ submitted' = "None"
    /\ UNCHANGED <<trail, resumption>>

emit(a) == IF a = "None" THEN noAction ELSE actionTriggered(a)

\* ------------------------------------------------------------------------
\* Mediator (document controller)
\* ------------------------------------------------------------------------

\* history: a Mediator call and the file name it was given.
Call(op, fileName) == [op |-> op, arg |-> fileName]

canBeSaved == ~isEmpty(filePath)
hasNodes == graph.nodes # {}
isUndoable == undoStack # <<>>
isRedoable == redoStack # <<>>

initializeNewMindMap ==
    /\ graph' = EmptyGraph
    /\ filePath' = NoFile
    /\ undoStack' = <<>>
    /\ redoStack' = <<>>
    /\ backgroundColor' = "white"
    /\ selectedNode' = -1
    /\ UNCHANGED isModified

openMindMap(fileName, ok, loaded) ==
    IF ok
    THEN /\ graph' = loaded.graph
         /\ backgroundColor' = loaded.color
         /\ filePath' = fileName
         /\ isModified' = FALSE
         /\ undoStack' = <<>>
         /\ redoStack' = <<>>
         /\ selectedNode' = -1
    ELSE UNCHANGED <<doc, backgroundColor, selectedNode>>

\* The result of Mediator::saveMindMap when the write succeeds (io) or not:
\* a Document without a file path cannot be saved.
saveMindMapResult(io) == canBeSaved /\ io

saveMindMap(ok) ==
    IF ok
    THEN /\ isModified' = FALSE
         /\ UNCHANGED <<graph, filePath, undoStack, redoStack, backgroundColor, selectedNode>>
    ELSE UNCHANGED <<doc, backgroundColor, selectedNode>>

saveMindMapAs(fileName, ok) ==
    IF ok
    THEN /\ filePath' = fileName
         /\ isModified' = FALSE
         /\ UNCHANGED <<graph, undoStack, redoStack, backgroundColor, selectedNode>>
    ELSE UNCHANGED <<doc, backgroundColor, selectedNode>>

setBackgroundColor(color) ==
    /\ backgroundColor' = color
    /\ isModified' = TRUE
    /\ UNCHANGED <<graph, filePath, undoStack, redoStack, selectedNode>>

exportToPNG == UNCHANGED <<doc, backgroundColor, selectedNode>>

\* Mutant: a new undo point keeps the redo stack.
saveUndoPointKeepsRedo ==
    /\ undoStack' = Append(undoStack, graph)
    /\ UNCHANGED redoStack

saveUndoPoint ==
    /\ undoStack' = Append(undoStack, graph)
    /\ redoStack' = <<>>

\* The selection is a weak reference: it is kept while its node is in the
\* graph g and cleared otherwise.
selectionIn(g) == IF selectedNode \in g.nodes THEN selectedNode ELSE -1

setSelectedNode(id) ==
    /\ selectedNode' = id
    /\ UNCHANGED <<doc, backgroundColor>>

getNodeByIndex(id) ==
    IF id \in graph.nodes
    THEN [error |-> "None", node |-> id]
    ELSE [error |-> "NotFound", node |-> -1]

NewNodeId == CHOOSE n \in NodeIds \ graph.nodes : \A m \in NodeIds \ graph.nodes : n <= m

createAndAddNode(source) ==
    /\ saveUndoPoint
    /\ graph' = [graph EXCEPT
                   !.nodes = @ \cup {NewNodeId},
                   !.edges = IF source = -1 THEN @ ELSE @ \cup {<<source, NewNodeId>>}]
    /\ isModified' = TRUE
    /\ UNCHANGED <<filePath, backgroundColor, selectedNode>>

\* Mutant: deleteNode removes the node and keeps its edges.
deleteNodeKeepsEdges(id) ==
    /\ saveUndoPoint
    /\ graph' = [graph EXCEPT !.nodes = @ \ {id}]
    /\ selectedNode' = selectionIn(graph')
    /\ isModified' = TRUE
    /\ UNCHANGED <<filePath, backgroundColor>>

deleteNode(id) ==
    /\ saveUndoPoint
    /\ graph' = [graph EXCEPT
                   !.nodes = @ \ {id},
                   !.edges = {e \in @ : e[1] # id /\ e[2] # id}]
    /\ selectedNode' = selectionIn(graph')
    /\ isModified' = TRUE
    /\ UNCHANGED <<filePath, backgroundColor>>

undo ==
    /\ redoStack' = Append(redoStack, graph)
    /\ graph' = undoStack[Len(undoStack)]
    /\ undoStack' = SubSeq(undoStack, 1, Len(undoStack) - 1)
    /\ selectedNode' = selectionIn(graph')
    /\ isModified' = TRUE
    /\ UNCHANGED <<filePath, backgroundColor>>

\* Mutant: redo re-applies nothing: it restores the state undo produced.
redoKeepsGraph ==
    /\ undoStack' = Append(undoStack, graph)
    /\ graph' = graph
    /\ redoStack' = SubSeq(redoStack, 1, Len(redoStack) - 1)
    /\ selectedNode' = selectionIn(graph')
    /\ isModified' = TRUE
    /\ UNCHANGED <<filePath, backgroundColor>>

redo ==
    /\ undoStack' = Append(undoStack, graph)
    /\ graph' = redoStack[Len(redoStack)]
    /\ redoStack' = SubSeq(redoStack, 1, Len(redoStack) - 1)
    /\ selectedNode' = selectionIn(graph')
    /\ isModified' = TRUE
    /\ UNCHANGED <<filePath, backgroundColor>>

\* ------------------------------------------------------------------------
\* Application (driver)
\* ------------------------------------------------------------------------

\* Mutant: doOpenMindMap never emits.
openMindMapActionSilent(ok) == "None"

\* Mutant: doOpenMindMap emits MindMapOpened whatever openMindMap returned.
openMindMapActionAlways(ok) == "MindMapOpened"

\* Application::doOpenMindMap: the action emitted for the result of
\* Mediator::openMindMap.
openMindMapAction(ok) == IF ok THEN "MindMapOpened" ELSE "None"

doOpenMindMap(fileName) ==
    \E ok \in BOOLEAN, loaded \in LoadableMaps :
        /\ openMindMap(fileName, ok, loaded)
        /\ calls' = Append(calls, Call("openMindMap", fileName))
        /\ outcome' = IF ok THEN "opened" ELSE "openFailed"
        /\ emit(openMindMapAction(ok))

\* Mutant: the test of saveMindMap's result is inverted.
saveMindMapActionInverted(ok) == IF ok THEN "MindMapSaveFailed" ELSE "MindMapSaved"

\* Application::saveMindMap: the action emitted for the result of
\* Mediator::saveMindMap.
saveMindMapAction(ok) == IF ~ok THEN "MindMapSaveFailed" ELSE "MindMapSaved"

\* Mutant: both branches of saveMindMapAs emit MindMapSavedAs.
saveMindMapAsActionAlwaysSaved(ok) == "MindMapSavedAs"

\* Application::saveMindMapAs: the action emitted for the result of
\* Mediator::saveMindMapAs.
saveMindMapAsAction(ok) == IF ok THEN "MindMapSavedAs" ELSE "MindMapSaveAsFailed"

\* Application::saveMindMapAs: the name handed to the Mediator.
saveAsFileName(fileName) ==
    IF ~endsWithExtension(fileName) THEN appendExtension(fileName) ELSE fileName

\* Mutant: the Discard case emits the action of the Save case.
notSavedDialogActionDiscardSaves(button) ==
    CASE button = "Save" -> "NotSavedDialogAccepted"
      [] button = "Discard" -> "NotSavedDialogAccepted"
      [] button = "Cancel" -> "NotSavedDialogCanceled"

\* Mutant: the Cancel case emits the action of the Discard case.
notSavedDialogActionCancelDiscards(button) ==
    CASE button = "Save" -> "NotSavedDialogAccepted"
      [] button = "Discard" -> "NotSavedDialogDiscarded"
      [] button = "Cancel" -> "NotSavedDialogDiscarded"

\* Application::runState, case ShowNotSavedDialog: button -> action.
notSavedDialogAction(button) ==
    CASE button = "Save" -> "NotSavedDialogAccepted"
      [] button = "Discard" -> "NotSavedDialogDiscarded"
      [] button = "Cancel" -> "NotSavedDialogCanceled"

\* Mutant: BackgroundColorChanged is emitted inside the isValid branch.
backgroundColorActionOnlyValid(valid) ==
    IF valid THEN "BackgroundColorChanged" ELSE "None"

\* Mutant: ExportedToPNG is emitted only when the dialog was accepted.
exportToPNGActionOnlyExported(exported) ==
    IF exported THEN "ExportedToPNG" ELSE "None"

\* Application::showBackgroundColorDialog and showExportToPNGDialog emit
\* whatever the dialog returned.
backgroundColorAction(valid) == "BackgroundColorChanged"

exportToPNGAction(exported) == "ExportedToPNG"

\* Mutant: the colour is handed to the Mediator without the isValid test.
showBackgroundColorDialogIgnoresValidity(valid, color) ==
    /\ setBackgroundColor(color)
    /\ calls' = Append(calls, Call("setBackgroundColor", NoFile))

\* Application::showBackgroundColorDialog: the colour the dialog returned is
\* set only if it is valid (a cancelled dialog returns an invalid colour).
showBackgroundColorDialog(valid, color) ==
    IF valid
    THEN /\ setBackgroundColor(color)
         /\ calls' = Append(calls, Call("setBackgroundColor", NoFile))
    ELSE /\ UNCHANGED <<doc, backgroundColor, selectedNode>>
         /\ UNCHANGED calls

\* history: no Mediator editing call was made by the last step.
NoEdit ==
    [op |-> "None", id |-> -1, hadRedo |-> FALSE, selected |-> -1,
     trip |-> "none", beforeEdit |-> EmptyGraph, beforeUndo |-> EmptyGraph]

runs(s) ==
    /\ pc = "run"
    /\ state = s
    /\ ran' = s
    /\ editHist' = NoEdit
    /\ UNCHANGED <<mindMapFile, timerPending, parser>>

\* MainWindow::close as the transition table has it: once the effect of
\* TryCloseWindow has run the machine is in Exit, with no Action submitted.
closeWindow ==
    /\ state' = "Exit"
    /\ pc' = "run"
    /\ submitted' = "None"
    /\ trail' = Append(trail, [from |-> state, by |-> "None", st |-> "Exit", how |-> "closed"])
    /\ UNCHANGED <<pending, resumption>>

RunTryCloseWindow ==
    /\ runs("TryCloseWindow")
    /\ UNCHANGED <<doc, backgroundColor, selectedNode>>
    /\ UNCHANGED calls
    /\ outcome' = "closed"
    /\ closeWindow

RunExit ==
    /\ runs("Exit")
    /\ UNCHANGED <<doc, backgroundColor, selectedNode>>
    /\ UNCHANGED <<machine, calls, trail, resumption>>
    /\ outcome' = "exited"
    /\ pc' = "exited"
    /\ submitted' = "None"

RunEdit ==
    /\ runs("Edit")
    /\ UNCHANGED <<doc, backgroundColor, selectedNode>>
    /\ UNCHANGED calls
    /\ outcome' = "done"
    /\ noAction

RunInitializeNewMindMap ==
    /\ runs("InitializeNewMindMap")
    /\ initializeNewMindMap
    /\ calls' = Append(calls, Call("initializeNewMindMap", NoFile))
    /\ outcome' = "done"
    /\ noAction

RunSaveMindMap ==
    /\ runs("SaveMindMap")
    /\ \E io \in BOOLEAN :
        LET ok == saveMindMapResult(io) IN
        /\ saveMindMap(ok)
        /\ calls' = Append(calls, Call("saveMindMap", filePath))
        /\ outcome' = IF ok THEN "saved" ELSE "saveFailed"
        /\ emit(saveMindMapAction(ok))

RunShowBackgroundColorDialog ==
    /\ runs("ShowBackgroundColorDialog")
    /\ \E valid \in BOOLEAN, color \in Colors :
        /\ showBackgroundColorDialog(valid, color)
        /\ outcome' = IF valid THEN "confirmed" ELSE "Cancel"
        /\ emit(backgroundColorAction(valid))

RunShowExportToPNGDialog ==
    /\ runs("ShowExportToPNGDialog")
    /\ \E exported \in BOOLEAN :
        /\ exportToPNG
        /\ calls' = IF exported THEN Append(calls, Call("exportToPNG", NoFile)) ELSE calls
        /\ outcome' = IF exported THEN "confirmed" ELSE "Cancel"
        /\ emit(exportToPNGAction(exported))

RunShowNotSavedDialog ==
    /\ runs("ShowNotSavedDialog")
    /\ UNCHANGED <<doc, backgroundColor, selectedNode>>
    /\ UNCHANGED calls
    /\ \E button \in {"Save", "Discard", "Cancel"} :
        /\ outcome' = button
        /\ emit(notSavedDialogAction(button))

RunShowSaveAsDialog ==
    /\ runs("ShowSaveAsDialog")
    /\ \E fileName \in FileNames \cup {NoFile} :
        IF isEmpty(fileName)
        THEN /\ UNCHANGED <<doc, backgroundColor, selectedNode>>
             /\ UNCHANGED calls
             /\ outcome' = "Cancel"
             /\ noAction
        ELSE \E ok \in BOOLEAN :
             /\ saveMindMapAs(saveAsFileName(fileName), ok)
             /\ calls' = Append(calls, Call("saveMindMapAs", saveAsFileName(fileName)))
             /\ outcome' = IF ok THEN "saved" ELSE "saveFailed"
             /\ emit(saveMindMapAsAction(ok))

RunShowOpenDialog ==
    /\ runs("ShowOpenDialog")
    /\ \E fileName \in FileNames \cup {NoFile} :
        IF ~isEmpty(fileName)
        THEN doOpenMindMap(fileName)
        ELSE /\ UNCHANGED <<doc, backgroundColor, selectedNode>>
             /\ UNCHANGED calls
             /\ outcome' = "Cancel"
             /\ noAction

\* The zero timer set by the constructor fires before any user input.
OpenArgMindMap ==
    /\ pc = "idle"
    /\ timerPending
    /\ timerPending' = FALSE
    /\ UNCHANGED <<mindMapFile, parser>>
    /\ ran' = "None"
    /\ editHist' = NoEdit
    /\ doOpenMindMap(mindMapFile)

\* A request from MainWindow or EditorView (menu, shortcut, close button).
Request(a) ==
    /\ pc = "idle"
    /\ ~timerPending
    /\ UNCHANGED <<doc, backgroundColor, selectedNode>>
    /\ UNCHANGED <<mindMapFile, timerPending, parser>>
    /\ ran' = "None"
    /\ outcome' = "None"
    /\ calls' = <<>>
    /\ editHist' = NoEdit
    /\ actionTriggered(a)

edits ==
    /\ pc = "idle"
    /\ ~timerPending
    /\ UNCHANGED <<machine, pc, mindMapFile, timerPending, parser>>
    /\ resumption' = NoEvaluation
    /\ trail' = <<>>
    /\ calls' = <<>>
    /\ ran' = "None"
    /\ outcome' = "None"
    /\ submitted' = "None"

\* history: the step makes the editing call op (on node id); an edit starts
\* an edit; undo; redo sequence, an undo and a redo continue one.
Edited(op, id) ==
    editHist' =
        CASE op \in {"createAndAddNode", "deleteNode"} ->
                [op |-> op, id |-> id, hadRedo |-> isRedoable,
                 selected |-> selectedNode, trip |-> "edit",
                 beforeEdit |-> graph, beforeUndo |-> EmptyGraph]
          [] op = "undo" /\ editHist.trip = "edit" ->
                [editHist EXCEPT !.op = op, !.id = -1, !.hadRedo = isRedoable,
                                 !.selected = selectedNode,
                                 !.trip = "undo", !.beforeUndo = graph]
          [] op = "redo" /\ editHist.trip = "undo" ->
                [editHist EXCEPT !.op = op, !.id = -1, !.hadRedo = isRedoable,
                                 !.selected = selectedNode, !.trip = "redo"]
          [] OTHER -> [NoEdit EXCEPT !.op = op, !.id = id, !.hadRedo = isRedoable,
                                     !.selected = selectedNode]

CreateAndAddNode ==
    /\ edits
    /\ Cardinality(graph.nodes) < MaxNodes
    /\ Len(undoStack) < MaxUndo
    /\ Edited("createAndAddNode", -1)
    /\ \E source \in graph.nodes \cup {-1} : createAndAddNode(source)

DeleteNode ==
    /\ edits
    /\ Len(undoStack) < MaxUndo
    /\ \E id \in graph.nodes :
        /\ Edited("deleteNode", id)
        /\ deleteNode(id)

Undo ==
    /\ edits
    /\ isUndoable
    /\ Edited("undo", -1)
    /\ undo

Redo ==
    /\ edits
    /\ isRedoable
    /\ Edited("redo", -1)
    /\ redo

\* The user selects a node of the graph, or clears the selection.
SetSelectedNode ==
    /\ edits
    /\ Edited("setSelectedNode", -1)
    /\ \E id \in (graph.nodes \cup {-1}) \ {selectedNode} : setSelectedNode(id)

Init ==
    /\ state = "Edit"
    /\ pending = "none"
    /\ pc = "idle"
    /\ mindMapFile \in StartupFiles
    /\ timerPending = ~isEmpty(mindMapFile)
    /\ graph = EmptyGraph
    /\ filePath = NoFile
    /\ isModified = FALSE
    /\ undoStack = <<>>
    /\ redoStack = <<>>
    /\ ran = "None"
    /\ outcome = "None"
    /\ submitted = "None"
    /\ trail = <<>>
    /\ calls = <<>>
    /\ backgroundColor = "white"
    /\ selectedNode = -1
    /\ resumption = NoEvaluation
    /\ editHist = NoEdit
    /\ args = <<>>
    /\ argi = 0
    /\ lang = ""
    /\ parsePc = "done"

Next ==
    \/ OpenArgMindMap
    \/ \E a \in RequestActions : Request(a)
    \/ CreateAndAddNode
    \/ DeleteNode
    \/ Undo
    \/ Redo
    \/ RunTryCloseWindow
    \/ RunExit
    \/ RunEdit
    \/ RunInitializeNewMindMap
    \/ RunSaveMindMap
    \/ RunShowBackgroundColorDialog
    \/ RunShowExportToPNGDialog
    \/ RunShowNotSavedDialog
    \/ RunShowSaveAsDialog
    \/ RunShowOpenDialog

Spec == Init /\ [][Next]_vars

\* The program with the selection of nodes, which no effect of the workflow
\* reads: Spec leaves the selection empty.
NextSelection ==
    \/ Next
    \/ SetSelectedNode

SpecSelection == Init /\ [][NextSelection]_vars

\* ------------------------------------------------------------------------
\* Application::parseArgs, run by the constructor before the wiring
\* ------------------------------------------------------------------------

\* args[i] and args.size() of the code, where i counts from 0.
Arg(i) == args[i + 1]
size == Len(args)

\* One iteration of the loop of parseArgs.
parseArg ==
    IF Arg(argi) = "-h" \/ Arg(argi) = "--help"
    THEN /\ parsePc' = "help"
         /\ UNCHANGED <<argi, lang, mindMapFile>>
    ELSE IF Arg(argi) = "--lang" /\ (argi + argi) < size
    THEN /\ lang' = Arg(argi + 1)
         /\ argi' = argi + 2
         /\ UNCHANGED <<parsePc, mindMapFile>>
    ELSE /\ mindMapFile' = ArgFile(Arg(argi))
         /\ argi' = argi + 1
         /\ UNCHANGED <<parsePc, lang>>

ParseArg ==
    /\ parsePc = "loop"
    /\ argi < size
    /\ parseArg
    /\ UNCHANGED <<machine, pc, timerPending, doc, backgroundColor, selectedNode,
                   ran, outcome, submitted, trail, calls, resumption, editHist,
                   args>>

\* The loop is over: the translations are set up for lang, and the
\* constructor sets the timer that opens the file of the command line.
ParseEnd ==
    /\ parsePc = "loop"
    /\ ~(argi < size)
    /\ parsePc' = "done"
    /\ timerPending' = ~isEmpty(mindMapFile)
    /\ UNCHANGED <<machine, pc, mindMapFile, doc, backgroundColor, selectedNode,
                   ran, outcome, submitted, trail, calls, resumption, editHist,
                   args, argi, lang>>

InitArgs ==
    /\ args \in ArgLists
    /\ argi = 1
    /\ lang = ""
    /\ parsePc = "loop"
    /\ mindMapFile = NoFile
    /\ timerPending = FALSE
    /\ state = "Edit"
    /\ pending = "none"
    /\ pc = "idle"
    /\ graph = EmptyGraph
    /\ filePath = NoFile
    /\ isModified = FALSE
    /\ undoStack = <<>>
    /\ redoStack = <<>>
    /\ backgroundColor = "white"
    /\ selectedNode = -1
    /\ ran = "None"
    /\ outcome = "None"
    /\ submitted = "None"
    /\ trail = <<>>
    /\ calls = <<>>
    /\ resumption = NoEvaluation
    /\ editHist = NoEdit

NextArgs ==
    \/ ParseArg
    \/ ParseEnd

SpecArgs == InitArgs /\ [][NextArgs]_vars

TypeOK ==
    /\ state \in States
    /\ pending \in PendingOps
    /\ pc \in {"idle", "run", "exited"}
    /\ isModified \in BOOLEAN
    /\ Len(undoStack) <= MaxUndo

\* ------------------------------------------------------------------------
\* Properties
\* ------------------------------------------------------------------------

\* The state that resumes the operation a request asked for.
TargetOf(request) ==
    CASE request = "RequestNew" -> "InitializeNewMindMap"
      [] request = "RequestOpen" -> "ShowOpenDialog"
      [] request = "RequestClose" -> "TryCloseWindow"
      [] OTHER -> "None"

IsSave(call) == call.op \in {"saveMindMap", "saveMindMapAs"}

\* The not-saved dialog was shown for the last request and answered with button.
Answered(button) ==
    /\ Len(trail) >= 2
    /\ trail[1].st = "ShowNotSavedDialog"
    /\ trail[2].how = button

\* C1: RequestNew, RequestOpen or RequestClose submitted in Edit leads to
\* ShowNotSavedDialog with the operation recorded as pending when the
\* Document is modified, and to InitializeNewMindMap, ShowOpenDialog or
\* TryCloseWindow respectively when it is not.
RequestInEditIsRouted ==
    [][(state = "Edit" /\ submitted' \in {"RequestNew", "RequestOpen", "RequestClose"}) =>
         IF isModified
         THEN /\ state' = "ShowNotSavedDialog"
              /\ pending' = (CASE submitted' = "RequestNew" -> "new"
                               [] submitted' = "RequestOpen" -> "open"
                               [] submitted' = "RequestClose" -> "close")
         ELSE state' = (CASE submitted' = "RequestNew" -> "InitializeNewMindMap"
                          [] submitted' = "RequestOpen" -> "ShowOpenDialog"
                          [] submitted' = "RequestClose" -> "TryCloseWindow")]_vars

RequestInEditIsRoutedWitness ==
    /\ trail = <<[from |-> "Edit", by |-> "RequestOpen",
                  st |-> "ShowNotSavedDialog", how |-> "None"]>>
    /\ pending = "open"
    /\ isModified

\* C2: every effect the driver runs for a dialog state or for SaveMindMap
\* submits exactly one action, whatever the outcome of the effect.
EveryEffectSubmitsAnAction ==
    ran \in DialogStates \cup {"SaveMindMap"} => submitted \in Actions

\* C3: cancelling the dialog of a dialog state submits an action that takes
\* the machine to Edit, and leaves the Document and the undo/redo stacks as
\* they were when the dialog state was entered.
CancelSubmitsAnAction ==
    [][(pc = "run" /\ state \in DialogStates /\ outcome' = "Cancel") =>
         (submitted' \in Actions /\ state' = "Edit" /\ doc' = doc)]_vars

\* C4: a save or save-as the Mediator reports as failed submits
\* MindMapSaveFailed resp. MindMapSaveAsFailed and nothing else, takes the
\* machine to Edit, and leaves graph, filePath and isModified as they were.
FailedSaveReturnsToEdit ==
    [][(outcome' = "saveFailed") =>
         /\ submitted' = (IF state = "SaveMindMap"
                          THEN "MindMapSaveFailed" ELSE "MindMapSaveAsFailed")
         /\ state' = "Edit"
         /\ doc' = doc]_vars

FailedSaveReturnsToEditWitness ==
    /\ Answered("Save")
    /\ trail[1].by = "RequestClose"
    /\ Len(trail) = 3
    /\ trail[3].how = "saveFailed"
    /\ canBeSaved
    /\ isModified
    /\ state = "Edit"

\* C5: after Save was chosen in the not-saved dialog the machine goes to
\* SaveMindMap; a successful save resumes the pending operation, exactly
\* once, and a failed save does not resume it.
AcceptedSaveResumesPending ==
    Answered("Save") =>
        LET target == TargetOf(trail[1].by)
            resumed == {i \in 1..Len(trail) : trail[i].st = target}
        IN /\ trail[2].by = "NotSavedDialogAccepted"
           /\ trail[2].st = "SaveMindMap"
           /\ Len(trail) >= 3 =>
                /\ trail[3].how \in {"saved", "saveFailed"}
                /\ trail[3].how = "saved" => resumed = {3}
                /\ trail[3].how = "saveFailed" => resumed = {}

AcceptedSaveResumesPendingWitness ==
    /\ Answered("Save")
    /\ trail[1].by = "RequestOpen"
    /\ Len(trail) = 4
    /\ trail[3].how = "saved"
    /\ trail[3].st = "ShowOpenDialog"

\* C6: after Discard was chosen in the not-saved dialog the pending
\* operation is resumed with no save in between; for RequestClose the
\* machine passes ShowNotSavedDialog and TryCloseWindow, never waits on the
\* way, and exits with the Document still unsaved.
DiscardResumesWithoutSave ==
    Answered("Discard") =>
        /\ trail[2].by = "NotSavedDialogDiscarded"
        /\ trail[2].st = TargetOf(trail[1].by)
        /\ \A i \in 1..Len(calls) : ~IsSave(calls[i])
        /\ trail[1].by = "RequestClose" =>
             /\ pc # "idle"
             /\ Len(trail) <= 3
             /\ Len(trail) = 3 => trail[3].st = "Exit"
             /\ pc = "exited" => (state = "Exit" /\ isModified)

DiscardResumesWithoutSaveWitness ==
    /\ Answered("Discard")
    /\ trail[1].from = "Edit"
    /\ trail[1].by = "RequestClose"
    /\ Len(trail) = 3
    /\ pc = "exited"

\* C7: Cancel in the not-saved dialog takes the machine to Edit, where it
\* stays until a new request, with the pending operation dropped, no
\* Mediator call made and isModified still true.
CancelAbortsPending ==
    Answered("Cancel") =>
        /\ trail[2].by = "NotSavedDialogCanceled"
        /\ Len(trail) = 2
        /\ state = "Edit"
        /\ pending = "none"
        /\ calls = <<>>
        /\ isModified

CancelAbortsPendingWitness ==
    /\ Answered("Cancel")
    /\ trail[1].by = "RequestNew"
    /\ pc = "idle"
    /\ ran = "Edit"

OpenedMindMapIsClean ==
    [][(outcome' = "opened") =>
         /\ submitted' = "MindMapOpened"
         /\ state' = "Edit"
         /\ calls'[Len(calls')].op = "openMindMap"
         /\ filePath' = calls'[Len(calls')].arg
         /\ pc = "idle" => filePath' = mindMapFile
         /\ ~isEmpty(filePath')
         /\ ~isModified'
         /\ undoStack' = <<>>
         /\ redoStack' = <<>>]_vars

OpenedMindMapIsCleanWitness ==
    /\ ran = "ShowOpenDialog"
    /\ outcome = "opened"
    /\ state = "Edit"
    /\ Answered("Discard")

\* C10: a failed openMindMap leaves graph, filePath, isModified and the
\* undo/redo stacks as they were and submits no MindMapOpened.
FailedOpenKeepsDocument ==
    [][(outcome' = "openFailed") =>
         /\ doc' = doc
         /\ submitted' # "MindMapOpened"
         /\ state' = state]_vars

FailedOpenKeepsDocumentWitness ==
    /\ outcome = "openFailed"
    /\ isModified
    /\ hasNodes
    /\ isUndoable

\* The Mediator calls that mutate the graph.
MutatingCalls == {"createAndAddNode", "deleteNode", "undo", "redo"}

\* C11: isModified is true after every graph-mutating Mediator call
\* (createAndAddNode, deleteNode, undo, redo, setBackgroundColor), is false
\* after every successful saveMindMap, saveMindMapAs and openMindMap, and no
\* other step changes it.
ModifiedFlagFollowsMutations ==
    [][/\ editHist'.op \in MutatingCalls => isModified'
       /\ (ran' = "ShowBackgroundColorDialog" /\ outcome' = "confirmed") => isModified'
       /\ outcome' \in {"saved", "opened"} => ~isModified'
       /\ isModified' # isModified =>
            \/ editHist'.op \in MutatingCalls
            \/ ran' = "ShowBackgroundColorDialog" /\ outcome' = "confirmed"
            \/ outcome' \in {"saved", "opened"}]_vars

ModifiedFlagFollowsMutationsWitness ==
    /\ outcome = "saved"
    /\ ~isModified
    /\ isUndoable
    /\ hasNodes

\* C12 as stated: after an edit, undo() followed by redo() leaves the node
\* set and the edge set the graph had immediately before the edit.
RedoRestoresStateBeforeEdit ==
    editHist.trip = "redo" => graph = editHist.beforeEdit

\* C12: after an edit, undo() restores the graph of immediately before the
\* edit, and undo() followed by redo() restores the graph of immediately
\* before the undo(), that is the graph the edit produced.
RedoRestoresStateBeforeUndo ==
    /\ editHist.trip = "undo" => graph = editHist.beforeEdit
    /\ editHist.trip = "redo" => graph = editHist.beforeUndo

RedoRestoresStateBeforeUndoWitness ==
    /\ editHist.trip = "redo"
    /\ graph = editHist.beforeUndo
    /\ graph # editHist.beforeEdit
    /\ editHist.beforeEdit.edges # {}

\* C13: after a new edit (createAndAddNode, deleteNode, each of which saves
\* an undo point) the redo stack is empty and isRedoable is false, whatever
\* undo() calls came before.
NewEditClearsRedo ==
    editHist.op \in {"createAndAddNode", "deleteNode"} =>
        /\ redoStack = <<>>
        /\ ~isRedoable

NewEditClearsRedoWitness ==
    /\ editHist.op \in {"createAndAddNode", "deleteNode"}
    /\ editHist.hadRedo
    /\ ~isRedoable

\* C14: every edge references two nodes of the graph; after deleteNode(id)
\* no edge has id as an endpoint, getNodeByIndex(id) fails with NotFound, and
\* the selection is empty if it referenced id and is kept otherwise.
DeleteNodeCascades ==
    /\ \A e \in graph.edges : e[1] \in graph.nodes /\ e[2] \in graph.nodes
    /\ editHist.op = "deleteNode" =>
        /\ \A e \in graph.edges : e[1] # editHist.id /\ e[2] # editHist.id
        /\ getNodeByIndex(editHist.id).error = "NotFound"
        /\ selectedNode = IF editHist.selected = editHist.id
                          THEN -1
                          ELSE editHist.selected

DeleteNodeCascadesWitness ==
    /\ editHist.op = "deleteNode"
    /\ editHist.selected = editHist.id
    /\ selectedNode = -1
    /\ \E e \in editHist.beforeEdit.edges : editHist.id \in {e[1], e[2]}
    /\ hasNodes

\* C15: the effect of ShowExportToPNGDialog leaves isModified, the graph, the
\* file path and the undo and redo stacks as they were, whether the export
\* runs or the dialog is cancelled; either way it submits ExportedToPNG and
\* the machine returns to Edit.
ExportKeepsDocument ==
    [][(pc = "run" /\ state = "ShowExportToPNGDialog") =>
         /\ doc' = doc
         /\ Len(undoStack') = Len(undoStack)
         /\ Len(redoStack') = Len(redoStack)
         /\ submitted' = "ExportedToPNG"
         /\ state' = "Edit"]_vars

ExportKeepsDocumentWitness ==
    /\ ran = "ShowExportToPNGDialog"
    /\ outcome = "Cancel"
    /\ submitted = "ExportedToPNG"
    /\ state = "Edit"
    /\ isModified
    /\ isUndoable

\* C17 as stated, for the save chosen in the not-saved dialog: whenever the
\* effect of SaveMindMap is due after NotSavedDialogAccepted, the Document
\* has a file path (canBeSaved).
AcceptedSaveHasFilePath ==
    (pc = "run" /\ state = "SaveMindMap" /\ submitted = "NotSavedDialogAccepted")
        => canBeSaved

\* C18 as stated: whenever the driver has handed control back to the event
\* loop (every dialog answered, every Mediator call returned) the workflow
\* is in Edit; it does not rest in a dialog or an intermediate state.
WorkflowSettlesInEdit ==
    pc = "idle" => state = "Edit"

\* C19: an effect that discards the Document (initializeNewMindMap in
\* InitializeNewMindMap, a successful openMindMap, Exit) runs while
\* isModified is true only if the not-saved dialog of the request it
\* serves was answered with Discard.
DiscardOnlyWithConsent ==
    [][(/\ isModified
        /\ \/ pc = "run" /\ state \in {"InitializeNewMindMap", "Exit"}
           \/ outcome' = "opened")
         => Answered("Discard")]_vars

DiscardOnlyWithConsentWitness ==
    /\ ran = "Exit"
    /\ isModified
    /\ isUndoable
    /\ Answered("Discard")

\* C20: the effect of ShowBackgroundColorDialog calls setBackgroundColor,
\* and marks the Document modified, only when the user picked a valid
\* colour; when the dialog is cancelled the Document, its colour and
\* isModified are as before; either way BackgroundColorChanged is submitted
\* once and the machine returns to Edit.
BackgroundColorOnlyWhenValid ==
    [][(pc = "run" /\ state = "ShowBackgroundColorDialog") =>
         /\ submitted' = "BackgroundColorChanged"
         /\ trail' = Append(trail, trail'[Len(trail')])
         /\ trail'[Len(trail')].by = "BackgroundColorChanged"
         /\ state' = "Edit"
         /\ outcome' \in {"confirmed", "Cancel"}
         /\ outcome' = "Cancel" =>
              /\ doc' = doc
              /\ backgroundColor' = backgroundColor
              /\ calls' = calls
         /\ outcome' = "confirmed" =>
              /\ isModified'
              /\ calls' = Append(calls, Call("setBackgroundColor", NoFile))]_vars

BackgroundColorOnlyWhenValidWitness ==
    /\ ran = "ShowBackgroundColorDialog"
    /\ outcome = "Cancel"
    /\ submitted = "BackgroundColorChanged"
    /\ state = "Edit"
    /\ ~isModified
    /\ calls = <<>>

\* The reading of the command line the claim describes, by position (the
\* positions 1 .. size - 1 of args): the code of a --lang option, a --lang
\* option (a "--lang" that is no code and has an argument after it), or a
\* bare positional argument.
RECURSIVE IsCode(_)
IsCode(k) == k >= 2 /\ Arg(k - 1) = "--lang" /\ ~IsCode(k - 1)

IsLangOption(k) == Arg(k) = "--lang" /\ ~IsCode(k) /\ k + 1 < size

LangOptions == {k \in 1..(size - 1) : IsLangOption(k)}

Positionals == {k \in 1..(size - 1) : ~IsCode(k) /\ ~IsLangOption(k)}

Last(S) == CHOOSE k \in S : \A j \in S : j <= k

\* C16 as stated: when parseArgs has run through an argument list without
\* -h and --help, the forced locale is the argument after the last --lang
\* option, and the mind-map file is the last bare positional argument,
\* never a --lang option or its code.
LangOptionIsParsedAnywhere ==
    parsePc = "done" =>
        /\ lang = IF LangOptions = {} THEN "" ELSE Arg(Last(LangOptions) + 1)
        /\ mindMapFile = IF Positionals = {}
                         THEN NoFile
                         ELSE ArgFile(Arg(Last(Positionals)))

====
